---- MODULE Spec2Model ----
(***************************************************************************)
(* Query-by-humming melody retrieval (Humming-to-song).                    *)
(*                                                                         *)
(* Model of the melody representation builder (src/src/melody_repr.py),    *)
(* the alignment engine (src/src/similarity.py), the corpus load           *)
(* (src/src/database.py) and the window scan and ranking                   *)
(* (find_windowed_matches in src/app.py).                                  *)
(*                                                                         *)
(* Numbers.  Python floats are modelled in fixed point:                    *)
(*   - costs, weights, scores: integers in units of 1/Scale (1e-4);        *)
(*   - times (onsets, IOIs): integer microseconds, so the 1e-6 s floor of  *)
(*     the code is the integer 1;                                          *)
(*   - natural logarithms: integers in units of 1e-4 nat;                  *)
(*   - float("inf") is PosInf, the DP sentinel 1e18 is INF, and an         *)
(*     addition to INF is absorbed as it is in a 64-bit float.             *)
(***************************************************************************)
EXTENDS Integers, Sequences, FiniteSets, TLC

VARIABLES
    \* position of the running operation
    pc,
    \* melody representation builder: the input notes and the built representation,
    \* the input semitone delta and its symbol
    notes, rep, semi, sym,
    \* alignment engine: the arguments of dp_distance and its MatchResult
    query, song, wts, res,
    \* the table D built by the last call of dp_distance (empty when it returned
    \* before building one), and the number of semitones by which the caller
    \* transposed the notes of the query
    table, shift,
    \* corpus: whether data/db/melody_db.json exists, the MIDI files found, the JSON
    \* payload of the database file, the melody database in memory (<<>> is None or
    \* the empty list), and the bad-MIDI log
    db_exists, midi_files, payload, db, bad,
    \* find_windowed_matches: its arguments (duration is librosa.get_duration of the
    \* audio file) and its locals
    audio_dur, win, hop, max_sec, topk,
    duration, s, starts, best_score, best_cost, best_start, best_len, usable,
    \* the windows read so far (start, interval count, results per corpus entry),
    \* the number of dp_distance calls made, and the (window, entry) results not yet
    \* folded when the fold runs in an arbitrary order
    wlog, aligned, pending,
    \* the values returned to the caller and the message the caller shows
    ranked, n_windows, report

repVars == <<notes, rep, semi, sym>>
dpVars == <<query, song, wts, res, table, shift>>
corpusVars == <<db_exists, midi_files, payload, db, bad>>
argVars == <<audio_dur, win, hop, max_sec, topk>>
bestVars == <<best_score, best_cost, best_start, best_len>>
scanVars == <<audio_dur, win, hop, max_sec, topk, duration, s, starts,
              best_score, best_cost, best_start, best_len, usable,
              wlog, aligned, pending, ranked, n_windows, report>>
vars == <<pc, notes, rep, semi, sym, query, song, wts, res, table, shift,
          db_exists, midi_files, payload, db, bad,
          audio_dur, win, hop, max_sec, topk, duration, s, starts,
          best_score, best_cost, best_start, best_len, usable,
          wlog, aligned, pending, ranked, n_windows, report>>

----------------------------------------------------------------------------
(* Arithmetic helpers (Python builtins) *)

Abs(x) == IF x < 0 THEN -x ELSE x
Max(a, b) == IF a >= b THEN a ELSE b
Min(a, b) == IF b < a THEN b ELSE a

RECURSIVE SumSeq(_)
SumSeq(sq) == IF Len(sq) = 0 THEN 0 ELSE sq[1] + SumSeq(Tail(sq))

\* fixed-point unit: 1.0 is Scale
Scale == 100 * 100

\* float("inf")
PosInf == 2000000000

\* ceiling of a / b for a >= 0, b > 0: a positive real never rounds to 0
CeilDiv(a, b) == (a + b - 1) \div b

----------------------------------------------------------------------------
(* src/src/melody_repr.py *)

\* MelodyRep dataclass
MelodyRep(p, iv, c, t) == [pitches |-> p, intervals |-> iv, contour |-> c, ioi |-> t]

\* the 1e-6 s floor of an inter-onset interval, in microseconds
EPS_IOI == 1

bin_interval_semitones_swapped(d) ==
    IF d <= -7 THEN -4
    ELSE IF d \in {-6, -5} THEN -3
    ELSE IF d \in {-4, -3} THEN -2
    ELSE IF d \in {-2, -1} THEN -1
    ELSE IF d = 0 THEN 0
    ELSE IF d \in {1, 2} THEN 1
    ELSE IF d \in {3, 4} THEN 3
    ELSE IF d \in {5, 6} THEN 2
    ELSE IF d >= 7 THEN 4
    ELSE 0

bin_interval_semitones(d) ==
    IF d <= -7 THEN -4
    ELSE IF d \in {-6, -5} THEN -3
    ELSE IF d \in {-4, -3} THEN -2
    ELSE IF d \in {-2, -1} THEN -1
    ELSE IF d = 0 THEN 0
    ELSE IF d \in {1, 2} THEN 1
    ELSE IF d \in {3, 4} THEN 2
    ELSE IF d \in {5, 6} THEN 3
    ELSE IF d >= 7 THEN 4
    ELSE 0

_contour_from_semitones(d) ==
    IF d > 0 THEN 1
    ELSE IF d < 0 THEN -1
    ELSE 0

notes_to_rep_short(ns) ==
    LET pitches == [i \in 1..Len(ns) |-> ns[i].pitch]
        onsets == [i \in 1..Len(ns) |-> ns[i].onset]
        raw == [i \in 1..(Len(pitches) - 1) |-> pitches[i + 1] - pitches[i]]
    IN  IF Len(ns) < 2
        THEN MelodyRep(pitches, <<>>, <<>>, <<>>)
        ELSE MelodyRep(pitches,
                 [i \in 1..Len(raw) |-> bin_interval_semitones(raw[i])],
                 [i \in 1..Len(raw) |-> _contour_from_semitones(raw[i])],
                 [i \in 1..(Len(onsets) - 2) |->
                     Max(EPS_IOI, onsets[i + 1] - onsets[i])])

notes_to_rep(ns) ==
    LET pitches == [i \in 1..Len(ns) |-> ns[i].pitch]
        onsets == [i \in 1..Len(ns) |-> ns[i].onset]
        raw == [i \in 1..(Len(pitches) - 1) |-> pitches[i + 1] - pitches[i]]
    IN  IF Len(ns) < 2
        THEN MelodyRep(pitches, <<>>, <<>>, <<>>)
        ELSE MelodyRep(pitches,
                 [i \in 1..Len(raw) |-> bin_interval_semitones(raw[i])],
                 [i \in 1..Len(raw) |-> _contour_from_semitones(raw[i])],
                 [i \in 1..(Len(onsets) - 1) |->
                     Max(EPS_IOI, onsets[i + 1] - onsets[i])])

----------------------------------------------------------------------------
(* src/src/similarity.py *)

\* MatchResult dataclass
MatchResult(c, j) == [cost |-> c, end_j |-> j]

\* INF = 1e18, the DP sentinel
INF == 1000000000

\* a + b in floats: 1e18 absorbs any finite cost added to it
AddF(a, b) == IF a >= INF THEN INF ELSE a + b

\* w * x for fixed-point w and x (w * 0.0 and w * 1.0 are exact)
MulF(w, x) ==
    IF x = 0 THEN 0 ELSE IF x = Scale THEN w ELSE (w * x) \div Scale

\* the default keyword arguments of dp_distance
DefaultWeights ==
    [w_int |-> Scale, w_cont |-> (7 * Scale) \div 10, w_time |-> (15 * Scale) \div 100,
     w_abs |-> (2 * Scale) \div 10, ins_cost |-> (8 * Scale) \div 10,
     del_cost |-> (8 * Scale) \div 10]

\* the fixed merge penalty 0.6
MergePenalty == (6 * Scale) \div 10

\* the time grid of the modelled onsets: half a second, in microseconds
Tick == 5 * 100000

\* math.log on the values the model's IOIs and floors take, in 1e-4 nat:
\* 1 microsecond, and k ticks for k in 1..6 (ln k composed from ln 2, ln 3, ln 5
\* so that equal ratios have equal logarithms)
Ln2 == 6931
Ln3 == 10986
Ln5 == 16094
LnTick == 131224
LnOfCount(k) ==
    CASE k = 1 -> 0
      [] k = 2 -> Ln2
      [] k = 3 -> Ln3
      [] k = 4 -> 2 * Ln2
      [] k = 5 -> Ln5
      [] k = 6 -> Ln2 + Ln3
Ln(x) == IF x <= 1 THEN 0 ELSE LnTick + LnOfCount(x \div Tick)

\* math.log(1e-6), the floor of a ratio's logarithm
LnRatioFloor == -138155

_interval_cost(a, b) == (Abs(a - b) * Scale) \div 8

_contour_cost_inverted(a, b) == IF a = b THEN Scale ELSE 0

_contour_cost(a, b) == IF a = b THEN 0 ELSE Scale

\* rq = q / max(1e-6, q_prev); log(max(1e-6, rq)), and the same for the song
_timing_ratio_cost(q_prev, q, s_prev, sg) ==
    LET lrq == Ln(q) - Ln(Max(EPS_IOI, q_prev))
        lrs == Ln(sg) - Ln(Max(EPS_IOI, s_prev))
    IN  Abs(Max(LnRatioFloor, lrq) - Max(LnRatioFloor, lrs))

\* local(i, j), lines 56-62
local(q, sg, W, i, j) ==
    LET ic == _interval_cost(q.intervals[i], sg.intervals[j])
        cc == _contour_cost(q.contour[i], sg.contour[j])
        tc == IF i >= 2 /\ j >= 2
              THEN _timing_ratio_cost(q.ioi[i - 1], q.ioi[i], sg.ioi[j - 1], sg.ioi[j])
              ELSE 0
    IN  MulF(W.w_int, ic) + MulF(W.w_cont, cc) + MulF(W.w_time, tc)

Clamp4Off(x) == x

\* max(-4, min(4, x)), lines 77 and 85
Clamp4(x) == Max(-4, Min(4, x))

\* the query-side merge candidate of cell (i, j), i >= 2, lines 76-81
MergeQ(q, sg, W, D, i, j) ==
    LET merged_q == Clamp4(q.intervals[i - 1] + q.intervals[i])
        merged_c == q.contour[i]
        ic == _interval_cost(merged_q, sg.intervals[j])
        cc == _contour_cost(merged_c, sg.contour[j])
    IN  AddF(D[i - 1][j], MulF(W.w_int, ic) + MulF(W.w_cont, cc) + MergePenalty)

\* the candidate-side merge candidate of cell (i, j), j >= 2, lines 84-89
MergeS(q, sg, W, D, i, j) ==
    LET merged_s == Clamp4(sg.intervals[j - 1] + sg.intervals[j])
        merged_c == sg.contour[j]
        ic == _interval_cost(q.intervals[i], merged_s)
        cc == _contour_cost(q.contour[i], merged_c)
    IN  AddF(D[i][j - 1], MulF(W.w_int, ic) + MulF(W.w_cont, cc) + MergePenalty)

\* The table is a sequence of rows; row i of the code is D[i + 1] and column j is
\* element j + 1.  Cell(q, sg, W, D, cur, i, j) is the value the inner loop body
\* (lines 66-91) stores in D[i][j], given the finished rows D (rows 0..i-1) and the
\* part cur of row i already filled (columns 0..j-1).
Cell(q, sg, W, D, cur, i, j) ==
    LET b0 == INF
        b1 == Min(b0, AddF(D[i][j], local(q, sg, W, i, j)))
        b2 == Min(b1, AddF(D[i][j + 1], W.ins_cost))
        b3 == Min(b2, AddF(cur[j], W.del_cost))
        b4 == IF i >= 2 THEN Min(b3, MergeQ(q, sg, W, D, i, j)) ELSE b3
        b5 == IF j >= 2 THEN Min(b4, MergeS(q, sg, W, D, i, j)) ELSE b4
    IN  b5

RECURSIVE FillRow(_, _, _, _, _, _)
FillRow(q, sg, W, D, cur, i) ==
    LET j == Len(cur)
    IN  IF j > Len(sg.intervals) THEN cur
        ELSE FillRow(q, sg, W, D, Append(cur, Cell(q, sg, W, D, cur, i, j)), i)

RECURSIVE FillTable(_, _, _, _)
FillTable(q, sg, W, D) ==
    LET i == Len(D)
    IN  IF i > Len(q.intervals) THEN D
        ELSE FillTable(q, sg, W, Append(D, FillRow(q, sg, W, D, <<INF>>, i)))

DPTableAnchored(q, sg, W) ==
    FillTable(q, sg, W,
              << [j \in 1..(Len(sg.intervals) + 1) |-> IF j = 1 THEN 0 ELSE INF] >>)

\* the table after the loops of lines 50-91 (m >= 1, n >= 1)
DPTable(q, sg, W) ==
    FillTable(q, sg, W, << [j \in 1..(Len(sg.intervals) + 1) |-> 0] >>)

\* lines 94-99: the first j in 1..n with the least D[m][j]
RECURSIVE BestEnd(_, _, _, _)
BestEnd(row, j, bcost, bj) ==
    IF j > Len(row) - 1 THEN MatchResult(bcost, bj)
    ELSE IF row[j + 1] < bcost
         THEN BestEnd(row, j + 1, row[j + 1], j - 1)
         ELSE BestEnd(row, j + 1, bcost, bj)

AbsPitchPenaltyAny(q, sg, W) ==
    IF Len(q.pitches) > 0
    THEN CeilDiv(W.w_abs * Abs(SumSeq(q.pitches) * Max(1, Len(sg.pitches))
                               - SumSeq(sg.pitches) * Len(q.pitches)),
                 12 * Len(q.pitches) * Max(1, Len(sg.pitches)))
    ELSE 0

\* lines 103-107: w_abs * (|avg_q - avg_s| / 12), rounded up
AbsPitchPenalty(q, sg, W) ==
    IF Len(q.pitches) > 0 /\ Len(sg.pitches) > 0
    THEN CeilDiv(W.w_abs * Abs(SumSeq(q.pitches) * Len(sg.pitches)
                               - SumSeq(sg.pitches) * Len(q.pitches)),
                 12 * Len(q.pitches) * Len(sg.pitches))
    ELSE 0

dp_distance_both_empty(q, sg, W) ==
    LET m == Len(q.intervals)
        n == Len(sg.intervals)
    IN  IF m = 0 /\ n = 0 THEN MatchResult(PosInf, -1)
        ELSE LET D == DPTable(q, sg, W)
                 best == BestEnd(D[m + 1], 1, INF, -1)
             IN  MatchResult(best.cost + AbsPitchPenalty(q, sg, W), best.end_j)

dp_distance(q, sg, W) ==
    LET m == Len(q.intervals)
        n == Len(sg.intervals)
    IN  IF m = 0 \/ n = 0 THEN MatchResult(PosInf, -1)
        ELSE LET D == DPTable(q, sg, W)
                 best == BestEnd(D[m + 1], 1, INF, -1)
             IN  MatchResult(best.cost + AbsPitchPenalty(q, sg, W), best.end_j)

----------------------------------------------------------------------------
(* src/src/database.py and the database block of src/app.py (lines 79-94) *)

EntryFields == {"song_id", "midi_path", "pitches", "intervals", "contour", "ioi"}

\* SongEntry dataclass
SongEntry(id, path, p, iv, c, t) ==
    [song_id |-> id, midi_path |-> path, pitches |-> p, intervals |-> iv,
     contour |-> c, ioi |-> t]

\* entry_to_rep
entry_to_rep(entry) ==
    MelodyRep(entry.pitches, entry.intervals, entry.contour, entry.ioi)

\* path.split("/")[-1].rsplit(".", 1)[0]; a path is [dir, stem, ext]
SongIdOf(path) == path.stem

\* build_db: one iteration of the loop over midi_paths (lines 34-55); a file is
\* [path, raises, notes], the outcome of extract_melody_notes on it
RECURSIVE build_db_from(_, _, _, _)
build_db_from(files, k, dbacc, badacc) ==
    IF k > Len(files) THEN [db |-> dbacc, bad |-> badacc]
    ELSE LET f == files[k]
             r == notes_to_rep(f.notes)
         IN  IF f.raises
             THEN build_db_from(files, k + 1, dbacc,
                      Append(badacc, [path |-> f.path, reason |-> "exception"]))
             ELSE IF Len(r.intervals) < 2
             THEN build_db_from(files, k + 1, dbacc,
                      Append(badacc, [path |-> f.path, reason |-> "no usable melody"]))
             ELSE build_db_from(files, k + 1,
                      Append(dbacc, SongEntry(SongIdOf(f.path), f.path, r.pitches,
                                              r.intervals, r.contour, r.ioi)),
                      badacc)

build_db(files) == build_db_from(files, 1, <<>>, <<>>)

\* save_db: the payload is the list of the entries' __dict__
save_db(entries) == entries

\* SongEntry(**x) raises TypeError unless x has exactly the dataclass fields
CanConstruct(x) == DOMAIN x = EntryFields

\* load_db: [SongEntry(**x) for x in payload]
load_db(pl) ==
    [i \in 1..Len(pl) |->
        SongEntry(pl[i].song_id, pl[i].midi_path, pl[i].pitches, pl[i].intervals,
                  pl[i].contour, pl[i].ioi)]

\* app.py lines 80-91, MIDI files found: build the database and save it
BuildDb ==
    /\ pc = "start"
    /\ ~db_exists
    /\ midi_files # <<>>
    /\ LET built == build_db(midi_files)
       IN  /\ db' = built.db
           /\ bad' = built.bad
           /\ payload' = save_db(built.db)
    /\ db_exists' = TRUE
    /\ pc' = "built"
    /\ UNCHANGED <<repVars, dpVars, midi_files, scanVars>>

\* app.py lines 80-84, no MIDI file: db stays None
NoMidi ==
    /\ pc = "start"
    /\ ~db_exists
    /\ midi_files = <<>>
    /\ pc' = "nomidi"
    /\ UNCHANGED <<repVars, dpVars, corpusVars, scanVars>>

\* app.py lines 92-94: the database file exists and is loaded
LoadDb ==
    /\ pc = "start"
    /\ db_exists
    /\ \A i \in 1..Len(payload) : CanConstruct(payload[i])
    /\ db' = load_db(payload)
    /\ pc' = "loaded"
    /\ UNCHANGED <<repVars, dpVars, db_exists, midi_files, payload, bad, scanVars>>

\* load_db raises TypeError on an object with a missing or unknown key: the script
\* stops with db unset
LoadDbRaises ==
    /\ pc = "start"
    /\ db_exists
    /\ \E i \in 1..Len(payload) : ~CanConstruct(payload[i])
    /\ pc' = "crashed"
    /\ UNCHANGED <<repVars, dpVars, corpusVars, scanVars>>

\* the script runs again from the top (db = None, line 79)
Rerun ==
    /\ pc \in {"built", "loaded", "nomidi", "crashed"}
    /\ pc' = "start"
    /\ db' = <<>>
    /\ bad' = <<>>
    /\ UNCHANGED <<repVars, dpVars, db_exists, midi_files, payload, scanVars>>

----------------------------------------------------------------------------
(* src/app.py: score normalisation and similarity *)

\* floor of the square root of n
RECURSIVE ISqrtIn(_, _, _)
ISqrtIn(n, lo, hi) ==
    IF lo = hi THEN lo
    ELSE LET mid == (lo + hi + 1) \div 2
         IN  IF mid * mid <= n THEN ISqrtIn(n, mid, hi) ELSE ISqrtIn(n, lo, mid - 1)
ISqrt(n) == ISqrtIn(n, 0, 46340)

\* math.sqrt(L) in units of 1e-3
SqrtMilli(L) == ISqrt(L * 1000000)

\* line 127: score = res.cost / math.sqrt(L); inf / x is inf
Score(cost, L) == IF cost >= PosInf THEN PosInf ELSE (cost * 1000) \div SqrtMilli(L)

\* line 136: similarity = max(0.0, 1.0 - best_score / 5.0) * 100
Similarity(score) == Max(0, Scale - score \div 5) * 100

Percent(x) == x * Scale

----------------------------------------------------------------------------
(* Inputs of the bounded model *)

\* longest note sequence given to notes_to_rep
MaxNotes == 3
\* largest semitone delta given to bin_interval_semitones (MIDI pitches are 0..127)
MaxSemi == 127
\* longest note sequence behind an argument of dp_distance
MaxDPNotes == 3

NoteEvent(p, o) == [pitch |-> p, onset |-> o]

SeqsUpTo(S, n) == UNION {[1..k -> S] : k \in 0..n}

\* notes of any pitch order and any onset order (the builder does not re-sort)
RepPitches == {55, 60, 61, 67}
RepOnsets == {0, Tick, 2 * Tick}
RepNoteSeqs == SeqsUpTo({NoteEvent(p, o) : p \in RepPitches, o \in RepOnsets}, MaxNotes)

EmptyRep == MelodyRep(<<>>, <<>>, <<>>, <<>>)

\* onset-sorted melodies: note k starts Gap(profile, k) ticks after note k - 1
DPPitches == {60, 62, 63}
Gap(profile, k) == IF profile = 1 THEN 1 ELSE 1 + (k % 2)
RECURSIVE OnsetOf(_, _)
OnsetOf(profile, k) == IF k <= 1 THEN 0 ELSE OnsetOf(profile, k - 1) + Gap(profile, k) * Tick
Melody(ps, profile) == [k \in 1..Len(ps) |-> NoteEvent(ps[k], OnsetOf(profile, k))]
DPNoteSeqs == {Melody(ps, g) : ps \in SeqsUpTo(DPPitches, MaxDPNotes), g \in {1, 2}}

\* a corpus entry read from JSON may carry an empty pitch list
StripPitches(r) == MelodyRep(<<>>, r.intervals, r.contour, r.ioi)

\* melodies with leaps of a fifth and more, whose merged intervals leave [-4, 4]
WideNoteSeqs == {Melody(<<67, 60>>, 1), Melody(<<60, 65>>, 1), Melody(<<74, 67, 60>>, 1),
                 Melody(<<67, 60, 67>>, 1), Melody(<<67, 60, 65, 70>>, 1)}

\* the query's notes sung d semitones higher
ShiftNotes(ns, d) == [k \in 1..Len(ns) |-> NoteEvent(ns[k].pitch + d, ns[k].onset)]
Shifts == {-12, -5, 1, 7}

QueryReps == {notes_to_rep(ns) : ns \in DPNoteSeqs \cup WideNoteSeqs}
SongReps == QueryReps \cup {StripPitches(r) : r \in QueryReps}
\* the weights of the pairwise runs: the defaults, with and without the timing term
TimingWeightSets == {DefaultWeights, [DefaultWeights EXCEPT !.w_time = 0]}

\* songs against which a transposed query is aligned
TransSongs == {notes_to_rep(Melody(<<60, 62, 63>>, 1)), notes_to_rep(Melody(<<63, 60, 62>>, 2)),
               notes_to_rep(Melody(<<60, 63>>, 1)),
               notes_to_rep(Melody(<<67, 60, 65, 70>>, 1)),
               StripPitches(notes_to_rep(Melody(<<60, 62, 63>>, 1))),
               notes_to_rep(Melody(<<60>>, 1))}

\* finite non-negative weights as large as the sentinel: w_cont = ins_cost = 1e18
HugeWeights == [DefaultWeights EXCEPT !.w_cont = INF, !.ins_cost = INF]

WeightSets == {DefaultWeights, [DefaultWeights EXCEPT !.w_time = 0],
               [DefaultWeights EXCEPT !.w_abs = 0]}

\* most MIDI files found, most objects in a database file
MaxFiles == 2
MaxPayload == 2

\* MIDI files: a/x.mid and b/x.mid share the stem x
MidiPaths == <<[dir |-> "a", stem |-> "x", ext |-> "mid"],
               [dir |-> "a", stem |-> "y", ext |-> "mid"],
               [dir |-> "b", stem |-> "x", ext |-> "mid"]>>
MidiContents ==
    {[raises |-> TRUE, notes |-> <<>>],
     [raises |-> FALSE, notes |-> <<>>],
     [raises |-> FALSE, notes |-> Melody(<<60, 62>>, 1)],
     [raises |-> FALSE, notes |-> Melody(<<60, 62, 63, 60>>, 1)],
     [raises |-> FALSE, notes |-> Melody(<<63, 62, 60>>, 2)]}
MidiFile(k, c) == [path |-> MidiPaths[k], raises |-> c.raises, notes |-> c.notes]
\* list_files returns the paths sorted
MidiFileLists ==
    {<<>>}
    \cup {<<MidiFile(k, c)>> : k \in 1..3, c \in MidiContents}
    \cup {<<MidiFile(k[1], c[1]), MidiFile(k[2], c[2])>> :
              k \in {kk \in (1..3) \X (1..3) : kk[1] < kk[2] /\ MaxFiles >= 2},
              c \in MidiContents \X MidiContents}
    \cup {<<MidiFile(1, c[1]), MidiFile(2, c[2]), MidiFile(3, c[3])>> :
              c \in {cc \in MidiContents \X MidiContents \X MidiContents : MaxFiles >= 3}}

\* objects of a database file: written by save_db, or edited by hand
GoodA == SongEntry("x", MidiPaths[1], <<60, 62, 63, 60>>, <<1, 1, -2>>, <<1, 1, -1>>,
                   <<Tick, Tick, Tick>>)
GoodB == SongEntry("y", MidiPaths[2], <<63, 62, 60>>, <<-1, -1>>, <<-1, -1>>,
                   <<Tick, 2 * Tick>>)
PitchesOnly == SongEntry("y", MidiPaths[2], <<60>>, <<>>, <<>>, <<>>)
BadContour == SongEntry("x", MidiPaths[1], <<60, 62, 63>>, <<1, 1>>, <<1>>,
                        <<Tick, Tick>>)
BadPitches == SongEntry("y", MidiPaths[2], <<60>>, <<1, 1>>, <<1, 1>>, <<Tick, Tick>>)
MissingKey == [song_id |-> "x", midi_path |-> MidiPaths[1], pitches |-> <<60, 62>>,
               intervals |-> <<1>>, contour |-> <<1>>]
RawEntries == {GoodA, GoodB, PitchesOnly, BadContour, BadPitches, MissingKey}
Payloads == SeqsUpTo(RawEntries, MaxPayload)

\* arguments of find_windowed_matches: the sidebar allows win >= 5, hop >= 1,
\* max_sec >= 10 and 1 <= topk <= 10 (app.py lines 61-64); times are in seconds
MinDuration == 4
MaxDuration == 11
MaxTopK == 2
MaxSongs == 2
Wins == {5, 6}
Hops == {2, 3}
MaxSecs == {10}

\* what audio_window_to_rep can find in a window: 12 notes (11 intervals, not
\* usable), 13 notes, 14 notes, and another melody of 13 notes
PatA == <<60, 62, 63, 60, 62, 63, 66, 63, 62, 60, 62, 63, 60, 62>>
PatB == <<67, 65, 64, 65, 67, 67, 67, 65, 65, 65, 67, 70, 70>>
WindowKinds == {"short", "a", "b", "c"}
WindowNotes(kind) ==
    CASE kind = "short" -> Melody(SubSeq(PatA, 1, 12), 1)
      [] kind = "a" -> Melody(SubSeq(PatA, 1, 13), 1)
      [] kind = "c" -> Melody(PatA, 1)
      [] kind = "b" -> Melody(PatB, 2)

\* audio_window_to_rep ends with notes_to_rep(notes); the representation of each kind
\* of window is built once
WindowRepTable == [kind \in WindowKinds |-> notes_to_rep(WindowNotes(kind))]
audio_window_to_rep(kind) == WindowRepTable[kind]

\* corpus entries: FullA and GoodA share the song id x, EmptyZ has no interval
FullA == LET r == notes_to_rep(Melody(PatA, 1))
         IN  SongEntry("x", MidiPaths[1], r.pitches, r.intervals, r.contour, r.ioi)
EmptyZ == SongEntry("z", MidiPaths[2], <<60>>, <<>>, <<>>, <<>>)
\* a second file holding the melody of GoodA
CoverY == SongEntry("y", MidiPaths[2], GoodA.pitches, GoodA.intervals, GoodA.contour,
                    GoodA.ioi)
ScanEntries == {FullA, GoodA, GoodB, CoverY, EmptyZ}
DBs == SeqsUpTo(ScanEntries, MaxSongs) \ {<<>>}

ScanIdle ==
    /\ audio_dur = 0 /\ win = 0 /\ hop = 0 /\ max_sec = 0 /\ topk = 0
    /\ duration = 0 /\ s = 0 /\ starts = <<>>
    /\ best_score = <<>> /\ best_cost = <<>> /\ best_start = <<>> /\ best_len = <<>>
    /\ usable = 0 /\ wlog = <<>> /\ aligned = 0 /\ pending = {}
    /\ ranked = <<>> /\ n_windows = 0 /\ report = "none"

CorpusIdle ==
    /\ db_exists = TRUE /\ midi_files = <<>> /\ payload = <<>> /\ db = <<>> /\ bad = <<>>

RepIdle == notes = <<>> /\ rep = EmptyRep
BinIdle == semi = 0 /\ sym = 0
DPIdle == query = EmptyRep /\ song = EmptyRep /\ wts = DefaultWeights
          /\ res = MatchResult(PosInf, -1) /\ table = <<>> /\ shift = 0

----------------------------------------------------------------------------
(* src/app.py: find_windowed_matches (lines 99-140) *)

\* None, the initial best_start
NoStart == -1

MinIntervalsLow == 12 - 1

\* line 120: a window with fewer intervals is skipped
MinIntervals == 12

\* the keys of {entry.song_id: ... for entry in db}, in insertion order
RECURSIVE KeyOrderFrom(_, _, _)
KeyOrderFrom(entries, k, acc) ==
    IF k > Len(entries) THEN acc
    ELSE IF \E i \in 1..Len(acc) : acc[i] = entries[k].song_id
         THEN KeyOrderFrom(entries, k + 1, acc)
         ELSE KeyOrderFrom(entries, k + 1, Append(acc, entries[k].song_id))
KeyOrder(entries) == KeyOrderFrom(entries, 1, <<>>)
Keys(entries) == {entries[k].song_id : k \in 1..Len(entries)}

\* lines 111-114: the four dictionaries
InitBest(entries) ==
    [score |-> [sid \in Keys(entries) |-> PosInf],
     cost |-> [sid \in Keys(entries) |-> PosInf],
     start |-> [sid \in Keys(entries) |-> NoStart],
     len |-> [sid \in Keys(entries) |-> 0]]

UpdateBestTorn(B, sid, score, cost, start_s, L) ==
    IF score < B.score[sid]
    THEN [score |-> [B.score EXCEPT ![sid] = score],
          cost |-> [B.cost EXCEPT ![sid] = cost],
          start |-> B.start,
          len |-> B.len]
    ELSE B

UpdateBestOrEqual(B, sid, score, cost, start_s, L) ==
    IF score <= B.score[sid]
    THEN [score |-> [B.score EXCEPT ![sid] = score],
          cost |-> [B.cost EXCEPT ![sid] = cost],
          start |-> [B.start EXCEPT ![sid] = start_s],
          len |-> [B.len EXCEPT ![sid] = L]]
    ELSE B

\* lines 128-132: keep the window if its score is strictly lower
UpdateBest(B, sid, score, cost, start_s, L) ==
    IF score < B.score[sid]
    THEN [score |-> [B.score EXCEPT ![sid] = score],
          cost |-> [B.cost EXCEPT ![sid] = cost],
          start |-> [B.start EXCEPT ![sid] = start_s],
          len |-> [B.len EXCEPT ![sid] = L]]
    ELSE B

\* lines 125-127: one (window, entry) alignment and its normalised score
AlignPair(q_rep, entry) ==
    LET r == dp_distance(q_rep, entry_to_rep(entry), DefaultWeights)
    IN  [cost |-> r.cost, score |-> Score(r.cost, Len(q_rep.intervals))]

\* dp_distance is pure: its results on the windows and entries of the bounded model
\* are computed once and looked up by the scan
PairTable ==
    [q_rep \in {audio_window_to_rep(kind) : kind \in WindowKinds}, entry \in ScanEntries
        |-> AlignPair(q_rep, entry)]
PairResult(q_rep, entry) == PairTable[q_rep, entry]

WindowResults(q_rep, entries) ==
    [k \in 1..Len(entries) |-> PairResult(q_rep, entries[k])]

\* lines 123-132: the loop over db for one usable window
RECURSIVE FoldSongs(_, _, _, _, _, _)
FoldSongs(B, entries, results, k, start_s, L) ==
    IF k > Len(entries) THEN B
    ELSE FoldSongs(UpdateBest(B, entries[k].song_id, results[k].score,
                              results[k].cost, start_s, L),
                   entries, results, k + 1, start_s, L)

\* lines 117-132 on a list of windows already read, in order
RECURSIVE FoldWindows(_, _, _, _)
FoldWindows(B, entries, windows, w) ==
    IF w > Len(windows) THEN B
    ELSE IF windows[w].L < MinIntervals
         THEN FoldWindows(B, entries, windows, w + 1)
         ELSE FoldWindows(FoldSongs(B, entries, windows[w].results, 1,
                                    windows[w].start, windows[w].L),
                          entries, windows, w + 1)

RankedRow(sim, sid, cost, L, start_s) ==
    [similarity |-> sim, sid |-> sid, cost |-> cost, len |-> L, start |-> start_s]

\* lines 134-137: one row per key, in key order
RankedRows(B, order) ==
    [i \in 1..Len(order) |->
        RankedRow(Similarity(B.score[order[i]]), order[i], B.cost[order[i]],
                  B.len[order[i]], B.start[order[i]])]

RECURSIVE InsertDescUnstable(_, _)
InsertDescUnstable(sq, x) ==
    IF sq = <<>> THEN <<x>>
    ELSE IF sq[1].similarity > x.similarity
         THEN <<sq[1]>> \o InsertDescUnstable(Tail(sq), x)
         ELSE <<x>> \o sq

\* list.sort(reverse=True, key=...) is stable: x goes after every row that is not
\* smaller
RECURSIVE InsertDesc(_, _)
InsertDesc(sq, x) ==
    IF sq = <<>> THEN <<x>>
    ELSE IF sq[1].similarity >= x.similarity
         THEN <<sq[1]>> \o InsertDesc(Tail(sq), x)
         ELSE <<x>> \o sq

RECURSIVE SortDescFrom(_, _, _)
SortDescFrom(sq, k, acc) ==
    IF k > Len(sq) THEN acc ELSE SortDescFrom(sq, k + 1, InsertDesc(acc, sq[k]))

\* line 139
SortDesc(sq) == SortDescFrom(sq, 1, <<>>)

\* line 140: ranked[:topk]
TopK(sq, k) == SubSeq(sq, 1, Min(k, Len(sq)))

----------------------------------------------------------------------------
(* RepSpec: notes_to_rep applied to every bounded note sequence *)

RepInit ==
    /\ pc = "input"
    /\ notes \in RepNoteSeqs
    /\ rep = EmptyRep
    /\ BinIdle /\ DPIdle /\ CorpusIdle /\ ScanIdle

BuildRep ==
    /\ pc = "input"
    /\ rep' = notes_to_rep(notes)
    /\ pc' = "done"
    /\ UNCHANGED <<notes, semi, sym, dpVars, corpusVars, scanVars>>

RepNext == BuildRep

RepSpec == RepInit /\ [][RepNext]_vars

(* BinSpec: bin_interval_semitones applied to every bounded delta *)

BinInit ==
    /\ pc = "input"
    /\ semi \in (-MaxSemi)..MaxSemi
    /\ sym = 0
    /\ RepIdle /\ DPIdle /\ CorpusIdle /\ ScanIdle

Bin ==
    /\ pc = "input"
    /\ sym' = bin_interval_semitones(semi)
    /\ pc' = "done"
    /\ UNCHANGED <<notes, rep, semi, dpVars, corpusVars, scanVars>>

BinNext == Bin

BinSpec == BinInit /\ [][BinNext]_vars

(* DPSpec: dp_distance applied to every bounded pair of representations *)

DPInit ==
    /\ pc = "input"
    /\ query \in QueryReps
    /\ song \in SongReps
    /\ wts \in TimingWeightSets
    /\ res = MatchResult(PosInf, -1)
    /\ table = <<>>
    /\ shift = 0
    /\ RepIdle /\ BinIdle /\ CorpusIdle /\ ScanIdle

Align ==
    /\ pc = "input"
    /\ res' = dp_distance(query, song, wts)
    /\ table' = IF Len(query.intervals) = 0 \/ Len(song.intervals) = 0
                THEN <<>>
                ELSE DPTable(query, song, wts)
    /\ pc' = "done"
    /\ UNCHANGED <<repVars, query, song, wts, shift, corpusVars, scanVars>>

DPNext == Align

DPSpec == DPInit /\ [][DPNext]_vars

(* TransSpec: a query built from notes transposed by a number of semitones and
   aligned against a song *)

TransInit ==
    /\ pc = "notes"
    /\ notes \in DPNoteSeqs \cup WideNoteSeqs
    /\ shift \in Shifts
    /\ song \in TransSongs
    /\ wts \in WeightSets
    /\ rep = EmptyRep
    /\ query = EmptyRep
    /\ res = MatchResult(PosInf, -1)
    /\ table = <<>>
    /\ BinIdle /\ CorpusIdle /\ ScanIdle

\* notes_to_rep on the notes as written and on the notes as sung
Transpose ==
    /\ pc = "notes"
    /\ rep' = notes_to_rep(notes)
    /\ query' = notes_to_rep(ShiftNotes(notes, shift))
    /\ pc' = "input"
    /\ UNCHANGED <<notes, semi, sym, song, wts, res, table, shift, corpusVars, scanVars>>

TransNext == Transpose \/ Align

TransSpec == TransInit /\ [][TransNext]_vars

(* WeightSpec: dp_distance on the bounded queries under every weight set, the
   huge weights included *)

WeightInit ==
    /\ pc = "input"
    /\ query \in QueryReps
    /\ song \in TransSongs
    /\ wts \in WeightSets \cup {HugeWeights}
    /\ res = MatchResult(PosInf, -1)
    /\ table = <<>>
    /\ shift = 0
    /\ RepIdle /\ BinIdle /\ CorpusIdle /\ ScanIdle

WeightNext == Align

WeightSpec == WeightInit /\ [][WeightNext]_vars

(* LoadSpec: the database block of app.py on every bounded MIDI folder and
   database file *)

LoadInit ==
    /\ pc = "start"
    /\ \/ /\ db_exists = FALSE
          /\ midi_files \in MidiFileLists
          /\ payload = <<>>
       \/ /\ db_exists = TRUE
          /\ midi_files = <<>>
          /\ payload \in Payloads
    /\ db = <<>>
    /\ bad = <<>>
    /\ RepIdle /\ BinIdle /\ DPIdle /\ ScanIdle

LoadNext == BuildDb \/ NoMidi \/ LoadDb \/ LoadDbRaises \/ Rerun

LoadSpec == LoadInit /\ [][LoadNext]_vars

(* ScanSpec: find_windowed_matches and its caller on every bounded recording,
   corpus and setting *)

\* the state at the call, for a recording whose length is one of durs
ScanStart(durs) ==
    /\ pc = "call"
    /\ audio_dur \in durs
    /\ win \in Wins
    /\ hop \in Hops
    /\ max_sec \in MaxSecs
    /\ topk \in 1..MaxTopK
    /\ db \in DBs
    /\ db_exists = TRUE /\ midi_files = <<>> /\ payload = save_db(db) /\ bad = <<>>
    /\ duration = 0 /\ s = 0 /\ starts = <<>>
    /\ best_score = <<>> /\ best_cost = <<>> /\ best_start = <<>> /\ best_len = <<>>
    /\ usable = 0 /\ wlog = <<>> /\ aligned = 0 /\ pending = {}
    /\ ranked = <<>> /\ n_windows = 0 /\ report = "none"
    /\ RepIdle /\ BinIdle /\ DPIdle

\* a recording shorter than every window, or longer than max_sec
ScanInit == ScanStart({MinDuration, MaxDuration})

\* lines 100-104
Enter ==
    /\ pc = "call"
    /\ duration' = Min(audio_dur, max_sec)
    /\ starts' = <<>>
    /\ s' = 0
    /\ pc' = "gen"
    /\ UNCHANGED <<repVars, dpVars, corpusVars, argVars, bestVars, usable, wlog,
                   aligned, pending, ranked, n_windows, report>>

WhileCondStrict == s + win < duration

\* line 105: while s + win <= duration
WhileCond == s + win <= duration

\* lines 105-107: one iteration of the while loop
GenStep ==
    /\ pc = "gen"
    /\ WhileCond
    /\ starts' = Append(starts, s)
    /\ s' = s + hop
    /\ UNCHANGED <<pc, repVars, dpVars, corpusVars, argVars, duration, bestVars,
                   usable, wlog, aligned, pending, ranked, n_windows, report>>

\* lines 105-115: the while loop ends; the fallback window and the dictionaries
GenExit ==
    /\ pc = "gen"
    /\ ~WhileCond
    /\ starts' = IF starts = <<>> THEN <<0>> ELSE starts
    /\ best_score' = InitBest(db).score
    /\ best_cost' = InitBest(db).cost
    /\ best_start' = InitBest(db).start
    /\ best_len' = InitBest(db).len
    /\ usable' = 0
    /\ pc' = "scan"
    /\ UNCHANGED <<repVars, dpVars, corpusVars, argVars, duration, s, wlog, aligned,
                   pending, ranked, n_windows, report>>

Best == [score |-> best_score, cost |-> best_cost, start |-> best_start,
         len |-> best_len]

\* lines 117-121: the next window has fewer than 12 intervals and is skipped
ScanSkip ==
    /\ pc = "scan"
    /\ Len(wlog) < Len(starts)
    /\ \E kind \in WindowKinds :
          LET start_s == starts[Len(wlog) + 1]
              q_rep == audio_window_to_rep(kind)
              L == Len(q_rep.intervals)
          IN  /\ L < MinIntervals
              /\ wlog' = Append(wlog, [start |-> start_s, L |-> L, results |-> <<>>])
    /\ UNCHANGED <<pc, repVars, dpVars, corpusVars, argVars, duration, s, starts,
                   bestVars, usable, aligned, pending, ranked, n_windows, report>>

\* lines 117-132: the next window is usable and is aligned against every entry
ScanUsable ==
    /\ pc = "scan"
    /\ Len(wlog) < Len(starts)
    /\ \E kind \in WindowKinds :
          LET start_s == starts[Len(wlog) + 1]
              q_rep == audio_window_to_rep(kind)
              L == Len(q_rep.intervals)
              results == WindowResults(q_rep, db)
              B == FoldSongs(Best, db, results, 1, start_s, L)
          IN  /\ ~(L < MinIntervals)
              /\ usable' = usable + 1
              /\ aligned' = aligned + Len(db)
              /\ best_score' = B.score
              /\ best_cost' = B.cost
              /\ best_start' = B.start
              /\ best_len' = B.len
              /\ wlog' = Append(wlog, [start |-> start_s, L |-> L,
                                       results |-> results])
    /\ UNCHANGED <<pc, repVars, dpVars, corpusVars, argVars, duration, s, starts,
                   pending, ranked, n_windows, report>>

\* lines 134-140: rank the songs and return
Rank ==
    /\ pc = "scan"
    /\ Len(wlog) = Len(starts)
    /\ ranked' = TopK(SortDesc(RankedRows(Best, KeyOrder(db))), topk)
    /\ n_windows' = Len(starts)
    /\ pc' = "report"
    /\ UNCHANGED <<repVars, dpVars, corpusVars, argVars, duration, s, starts,
                   bestVars, usable, wlog, aligned, pending, report>>

\* lines 158-163: the caller's message
Report ==
    /\ pc = "report"
    /\ report' = IF usable = 0 THEN "no_signal" ELSE "ranked"
    /\ pc' = "done"
    /\ UNCHANGED <<repVars, dpVars, corpusVars, argVars, duration, s, starts,
                   bestVars, usable, wlog, aligned, pending, ranked, n_windows>>

ScanNext == Enter \/ GenStep \/ GenExit \/ ScanSkip \/ ScanUsable \/ Rank \/ Report

\* the call runs to its end: no step waits on anything
ScanSpec == ScanInit /\ [][ScanNext]_vars /\ WF_vars(ScanNext)

----------------------------------------------------------------------------
(* Claims on the pure functions *)

\* C1: dp_distance with an empty query or candidate interval sequence returns
\* cost = +infinity and end_j = -1, whatever the other argument and the weights.
C1_EmptyIncomparable ==
    (pc = "done" /\ (Len(query.intervals) = 0 \/ Len(song.intervals) = 0))
        => res = MatchResult(PosInf, -1)

C1_Witness ==
    /\ pc = "done"
    /\ Len(query.intervals) = 0
    /\ Len(song.intervals) = 2
    /\ res.cost = PosInf
    /\ res.end_j = -1

\* C2: notes_to_rep of N notes has N pitches; N - 1 intervals, contour symbols and
\* IOIs when N >= 2; and no intervals, contour symbols or IOIs when N < 2.
C2_RepLengths ==
    pc = "done" =>
        LET N == Len(notes)
        IN  /\ Len(rep.pitches) = N
            /\ N >= 2 => /\ Len(rep.intervals) = N - 1
                         /\ Len(rep.contour) = N - 1
                         /\ Len(rep.ioi) = N - 1
            /\ N < 2 => /\ rep.intervals = <<>>
                        /\ rep.contour = <<>>
                        /\ rep.ioi = <<>>

C2_Witness ==
    /\ pc = "done"
    /\ Len(notes) = 3
    /\ Len(rep.pitches) = 3
    /\ Len(rep.ioi) = 2

\* the 9-bin table of the specification
BinTable(d) ==
    CASE d <= -7 -> -4
      [] d \in {-6, -5} -> -3
      [] d \in {-4, -3} -> -2
      [] d \in {-2, -1} -> -1
      [] d = 0 -> 0
      [] d \in {1, 2} -> 1
      [] d \in {3, 4} -> 2
      [] d \in {5, 6} -> 3
      [] d >= 7 -> 4

\* C3: bin_interval_semitones returns the 9-bin table on every integer delta and is
\* monotonic: a smaller delta never has a larger symbol.
C3_BinTableMonotonic ==
    pc = "done" =>
        /\ sym = BinTable(semi)
        /\ \A d \in (-MaxSemi)..MaxSemi :
               d < semi => bin_interval_semitones(d) <= sym

C3_Witness ==
    /\ pc = "done"
    /\ semi = 5
    /\ sym = 3

\* the precondition of the self-alignment claim: identical interval and contour
\* sequences of length L >= 1, equal IOIs, default weights except w_time = 0
SelfAligned ==
    /\ pc = "done"
    /\ Len(query.intervals) >= 1
    /\ query.intervals = song.intervals
    /\ query.contour = song.contour
    /\ query.ioi = song.ioi
    /\ wts = [DefaultWeights EXCEPT !.w_time = 0]

\* both mean pitches are defined and differ
MeanPitchDiffers ==
    /\ Len(query.pitches) > 0
    /\ Len(song.pitches) > 0
    /\ SumSeq(query.pitches) * Len(song.pitches)
           # SumSeq(song.pitches) * Len(query.pitches)

ZeroCostFullSimilarity ==
    /\ res.cost = 0
    /\ Similarity(Score(res.cost, Len(query.intervals))) = Percent(100)

\* C4 as stated: self-aligned representations cost exactly 0 and are 100% similar.
C4_Original == SelfAligned => ZeroCostFullSimilarity

\* C4 as amended: self-aligned representations cost exactly 0 and are 100% similar
\* when their mean pitches are equal or a pitch list is empty; when the mean
\* pitches differ the cost is positive (the pitch tie-breaker alone).
C4_SelfAlignment ==
    SelfAligned =>
        /\ ~MeanPitchDiffers => ZeroCostFullSimilarity
        /\ MeanPitchDiffers =>
               /\ res.cost > 0
               /\ res.cost * 12 * Len(query.pitches) * Len(song.pitches)
                      >= wts.w_abs * Abs(SumSeq(query.pitches) * Len(song.pitches)
                                         - SumSeq(song.pitches) * Len(query.pitches))
               /\ (res.cost - 1) * 12 * Len(query.pitches) * Len(song.pitches)
                      < wts.w_abs * Abs(SumSeq(query.pitches) * Len(song.pitches)
                                        - SumSeq(song.pitches) * Len(query.pitches))

C4_Witness ==
    /\ SelfAligned
    /\ Len(query.intervals) = 2
    /\ query.pitches = song.pitches
    /\ query.intervals[1] # query.intervals[2]
    /\ res.cost = 0

(* GenSpec: the window generation of find_windowed_matches (lines 100-110) on
   every bounded recording and setting *)

GenInit == ScanStart(MinDuration..MaxDuration) /\ db = <<FullA>> /\ topk = 1

GenNext == Enter \/ GenStep \/ GenExit

GenSpec == GenInit /\ [][GenNext]_vars /\ WF_vars(GenNext)

(* FoldSpec: the updates of lines 128-132 for the (window, entry) results of one
   scan, applied one pair at a time in any order *)

\* lines 105-110 as a function of the arguments
RECURSIVE StartsFrom(_, _, _, _)
StartsFrom(s0, w, h, d) ==
    IF s0 + w <= d THEN <<s0>> \o StartsFrom(s0 + h, w, h, d) ELSE <<>>
WindowStarts(w, h, d) ==
    IF StartsFrom(0, w, h, d) = <<>> THEN <<0>> ELSE StartsFrom(0, w, h, d)

FoldEntries == {FullA, GoodA, CoverY}
FoldKinds == {"short", "a", "c"}
FoldDBs == {d \in DBs : \A k \in 1..Len(d) : d[k] \in FoldEntries}

\* lines 117-127 for the window at start_s: its record in the log
WindowRecord(start_s, kind, entries) ==
    LET q_rep == audio_window_to_rep(kind)
        L == Len(q_rep.intervals)
    IN  [start |-> start_s, L |-> L,
         results |-> IF L < MinIntervals THEN <<>> ELSE WindowResults(q_rep, entries)]

FoldInit ==
    /\ pc = "fold"
    /\ audio_dur = MaxDuration
    /\ win \in Wins
    /\ hop \in Hops
    /\ max_sec \in MaxSecs
    /\ topk = 1
    /\ db \in FoldDBs
    /\ db_exists = TRUE /\ midi_files = <<>> /\ payload = save_db(db) /\ bad = <<>>
    /\ duration = Min(audio_dur, max_sec)
    /\ starts = WindowStarts(win, hop, duration)
    /\ s = Len(starts) * hop
    /\ n_windows = Len(starts)
    /\ \E kinds \in [1..Len(starts) -> FoldKinds] :
          wlog = [w \in 1..Len(starts) |-> WindowRecord(starts[w], kinds[w], db)]
    /\ usable = Cardinality({w \in 1..Len(wlog) : ~(wlog[w].L < MinIntervals)})
    /\ aligned = usable * Len(db)
    /\ pending = {p \in (1..Len(wlog)) \X (1..Len(db)) : ~(wlog[p[1]].L < MinIntervals)}
    /\ best_score = InitBest(db).score
    /\ best_cost = InitBest(db).cost
    /\ best_start = InitBest(db).start
    /\ best_len = InitBest(db).len
    /\ ranked = <<>> /\ report = "none"
    /\ RepIdle /\ BinIdle /\ DPIdle

\* lines 128-132 for one pending (window, entry) result
ApplyPair ==
    /\ pc = "fold"
    /\ \E p \in pending :
          LET w == p[1]
              k == p[2]
              B == UpdateBest(Best, db[k].song_id, wlog[w].results[k].score,
                              wlog[w].results[k].cost, wlog[w].start, wlog[w].L)
          IN  /\ best_score' = B.score
              /\ best_cost' = B.cost
              /\ best_start' = B.start
              /\ best_len' = B.len
              /\ pending' = pending \ {p}
    /\ UNCHANGED <<pc, repVars, dpVars, corpusVars, argVars, duration, s, starts,
                   usable, wlog, aligned, ranked, n_windows, report>>

FoldNext == ApplyPair

FoldSpec == FoldInit /\ [][FoldNext]_vars

----------------------------------------------------------------------------
(* Claims on the window scan and the ranking *)

\* the multiples k of hop whose window fits: k * hop + win <= min(duration, max_sec)
FittingWindows ==
    {k \in 0..MaxDuration : k * hop + win <= Min(audio_dur, max_sec)}

ExpectedStarts ==
    IF FittingWindows = {} THEN <<0>>
    ELSE [i \in 1..Cardinality(FittingWindows) |-> (i - 1) * hop]

GenerationOver == pc \in {"scan", "report", "done"}

\* C5: the window starts are exactly 0, hop, 2*hop, ... for every start whose
\* window fits in min(duration, max_sec), or the single start 0 when none fits; at
\* least one window is generated, and the generation loop terminates.
C5_WindowStarts ==
    /\ [](GenerationOver =>
            /\ starts = ExpectedStarts
            /\ Len(starts) >= 1
            /\ \A k \in FittingWindows : \E i \in 1..Len(starts) : starts[i] = k * hop)
    /\ [](pc = "gen" => Len(starts) <= Cardinality(FittingWindows))
    /\ <>GenerationOver

C5_Witness ==
    /\ GenerationOver
    /\ audio_dur > max_sec
    /\ starts = <<0, 2, 4>>
    /\ win = 6

UsableWindows == {w \in 1..Len(wlog) : wlog[w].L >= 12}

\* the step reads a window with fewer than 12 intervals
ReadsShortWindow ==
    /\ Len(wlog') = Len(wlog) + 1
    /\ wlog'[Len(wlog')].L < 12

\* C6: a window with fewer than 12 intervals is not aligned against any song,
\* changes no song's best score, cost, length or start, and is not counted as
\* usable; usable is the number of windows read with at least 12 intervals; when
\* every window is skipped the caller reports "no signal" and not a ranked result.
C6_ShortWindowsSkipped ==
    /\ [](/\ usable = Cardinality(UsableWindows)
          /\ aligned = usable * Len(db)
          /\ \A w \in 1..Len(wlog) : wlog[w].L < 12 => wlog[w].results = <<>>
          /\ pc = "done" => (report = "no_signal" <=> usable = 0)
          /\ pc = "done" => (report = "no_signal" <=> UsableWindows = {}))
    /\ [][ReadsShortWindow => UNCHANGED <<bestVars, usable, aligned>>]_vars

C6_Witness ==
    /\ pc = "done"
    /\ Len(wlog) = 3
    /\ wlog[1].L = 11
    /\ wlog[2].L = 12
    /\ wlog[3].L = 11
    /\ usable = 1
    /\ report = "ranked"

\* position of a song id in the corpus order (the order of the dictionary keys)
KeyIndex(sid) == CHOOSE i \in 1..Len(KeyOrder(db)) : KeyOrder(db)[i] = sid

RankedIds == {ranked[i].sid : i \in 1..Len(ranked)}

\* row r comes before the song sid in the stable descending order
Precedes(r, sid) ==
    \/ r.similarity > Similarity(best_score[sid])
    \/ /\ r.similarity = Similarity(best_score[sid])
       /\ KeyIndex(r.sid) < KeyIndex(sid)

\* C7: the ranked list is sorted by descending similarity, every similarity is in
\* [0, 100] and is 0 for a best score >= 5.0 (+infinity included), songs of equal
\* similarity keep their corpus order, and the list is the first
\* min(K, number of corpus songs) entries of that order (the corpus songs are the
\* song ids, the keys of the dictionaries).
C7_RankedOrder ==
    pc \in {"report", "done"} =>
        /\ Len(ranked) = Min(topk, Cardinality(Keys(db)))
        /\ \A i \in 1..Len(ranked) :
              /\ ranked[i].sid \in Keys(db)
              /\ ranked[i].similarity = Similarity(best_score[ranked[i].sid])
              /\ ranked[i].similarity >= 0
              /\ ranked[i].similarity <= Percent(100)
              /\ best_score[ranked[i].sid] >= 5 * Scale => ranked[i].similarity = 0
              /\ ranked[i].cost = best_cost[ranked[i].sid]
              /\ ranked[i].len = best_len[ranked[i].sid]
              /\ ranked[i].start = best_start[ranked[i].sid]
        /\ \A i, j \in 1..Len(ranked) :
              i < j => Precedes(ranked[i], ranked[j].sid)
        /\ \A sid \in Keys(db) \ RankedIds :
              \A i \in 1..Len(ranked) : Precedes(ranked[i], sid)

C7_Witness ==
    /\ pc = "done"
    /\ Len(ranked) = 2
    /\ usable = 2
    /\ ranked[1].similarity = ranked[2].similarity
    /\ ranked[1].similarity > 0
    /\ ranked[1].sid = "y"
    /\ ranked[2].sid = "x"

\* the (window, entry) alignments made so far for the song sid with a finite score
FinitePairs(sid) ==
    {p \in (1..Len(wlog)) \X (1..Len(db)) :
        /\ wlog[p[1]].L >= 12
        /\ db[p[2]].song_id = sid
        /\ wlog[p[1]].results[p[2]].score < PosInf}

PairScore(p) == wlog[p[1]].results[p[2]].score
PairCost(p) == wlog[p[1]].results[p[2]].cost

\* p was processed before r: an earlier window, or an earlier entry of the same one
Earlier(p, r) == p[1] < r[1] \/ (p[1] = r[1] /\ p[2] < r[2])

\* p is the first processed pair of P with the least score
FirstMinimum(P, p) ==
    /\ p \in P
    /\ \A r \in P : PairScore(p) <= PairScore(r)
    /\ \A r \in P : PairScore(r) = PairScore(p) => ~Earlier(r, p)

\* C9: after any prefix of the windows, each song's best_score is the minimum
\* normalised score over the usable windows processed so far, and best_cost,
\* best_len and best_start are those of the first processed window attaining it;
\* a song with no finite score keeps +infinity, length 0 and no start.
C9_RunningMinimum ==
    pc \in {"scan", "report", "done"} =>
        \A sid \in Keys(db) :
            IF FinitePairs(sid) = {}
            THEN /\ best_score[sid] = PosInf
                 /\ best_cost[sid] = PosInf
                 /\ best_len[sid] = 0
                 /\ best_start[sid] = NoStart
            ELSE \E p \in FinitePairs(sid) :
                    /\ FirstMinimum(FinitePairs(sid), p)
                    /\ best_score[sid] = PairScore(p)
                    /\ best_cost[sid] = PairCost(p)
                    /\ best_len[sid] = wlog[p[1]].L
                    /\ best_start[sid] = wlog[p[1]].start

C9_Witness ==
    /\ pc = "done"
    /\ db = <<FullA, EmptyZ>>
    /\ Len(wlog) = 3
    /\ wlog[1].L = 12 /\ wlog[2].L = 12 /\ wlog[3].L = 13
    /\ wlog[1].results[1].score > wlog[2].results[1].score
    /\ wlog[2].results[1].score = wlog[3].results[1].score
    /\ best_start["x"] = wlog[2].start
    /\ best_len["x"] = 12
    /\ best_start["z"] = NoStart

----------------------------------------------------------------------------
(* Claims on loading the corpus and on the order of the fold *)

\* the length invariant of a corpus entry
LengthInvariant(x) ==
    IF Len(x.pitches) < 2
    THEN Len(x.intervals) = 0 /\ Len(x.contour) = 0 /\ Len(x.ioi) = 0
    ELSE /\ Len(x.intervals) = Len(x.pitches) - 1
         /\ Len(x.contour) = Len(x.pitches) - 1
         /\ Len(x.ioi) = Len(x.pitches) - 1

WellFormed(x) == CanConstruct(x) /\ LengthInvariant(x)

MalformedCount == Cardinality({i \in 1..Len(payload) : ~WellFormed(payload[i])})

\* C8: loading the corpus validates each entry against the length invariant; an
\* entry that violates it is rejected with a reason, the load does not abort or
\* raise, and all the well-formed entries are still loaded.
C8_Original ==
    /\ pc # "crashed"
    /\ pc = "loaded" =>
          /\ db = SelectSeq(payload, WellFormed)
          /\ Len(bad) = MalformedCount

\* the result of applying the pairs in sequential order
Sequential == FoldWindows(InitBest(db), db, wlog, 1)

FoldOver == pc = "fold" /\ pending = {}

\* the pairs of the song sid that attain its least score
MinimumPairs(sid) ==
    {p \in FinitePairs(sid) : \A r \in FinitePairs(sid) : PairScore(p) <= PairScore(r)}

\* C10 as stated: applying the updates of lines 128-132 in any order ends with the
\* same per-song best score, cost, window length and start as the sequential order.
C10_Original == FoldOver => Best = Sequential

\* C10: applying the updates of lines 128-132 to the (window, entry) results in any
\* order ends with the same per-song best score as the sequential order; the
\* cost, window length and start are those of one result attaining that score
\* (none when no score is finite), and are those of the sequential order whenever a
\* single result attains it.
C10_FoldOrder ==
    FoldOver =>
        \A sid \in Keys(db) :
            /\ best_score[sid] = Sequential.score[sid]
            /\ IF FinitePairs(sid) = {}
               THEN /\ best_cost[sid] = PosInf
                    /\ best_len[sid] = 0
                    /\ best_start[sid] = NoStart
               ELSE \E p \in MinimumPairs(sid) :
                       /\ best_score[sid] = PairScore(p)
                       /\ best_cost[sid] = PairCost(p)
                       /\ best_len[sid] = wlog[p[1]].L
                       /\ best_start[sid] = wlog[p[1]].start
            /\ Cardinality(MinimumPairs(sid)) <= 1 =>
                  /\ best_cost[sid] = Sequential.cost[sid]
                  /\ best_len[sid] = Sequential.len[sid]
                  /\ best_start[sid] = Sequential.start[sid]

C10_Witness ==
    /\ FoldOver
    /\ Len(db) = 2
    /\ best_score = Sequential.score
    /\ best_start # Sequential.start
    /\ best_len # Sequential.len

----------------------------------------------------------------------------
(* Claims on the alignment table and on the result of dp_distance *)

\* dp_distance has returned on a query of m >= 1 and a song of n >= 1 intervals
Compared ==
    /\ pc = "done"
    /\ Len(query.intervals) >= 1
    /\ Len(song.intervals) >= 1

\* D[i][j] of the code
T(i, j) == table[i + 1][j + 1]

MinOfSet(S) == CHOOSE x \in S : \A y \in S : x <= y

Substitution(i, j) == AddF(T(i - 1, j - 1), local(query, song, wts, i, j))
Insertion(i, j) == AddF(T(i - 1, j), wts.ins_cost)
Deletion(i, j) == AddF(T(i, j - 1), wts.del_cost)

\* two query intervals against one song interval (i >= 2)
QueryMerge(i, j) ==
    AddF(T(i - 2, j - 1),
         MulF(wts.w_int,
              _interval_cost(Max(-4, Min(4, query.intervals[i - 1] + query.intervals[i])),
                             song.intervals[j]))
         + MulF(wts.w_cont, _contour_cost(query.contour[i], song.contour[j]))
         + (6 * Scale) \div 10)

\* one query interval against two song intervals (j >= 2)
SongMerge(i, j) ==
    AddF(T(i - 1, j - 2),
         MulF(wts.w_int,
              _interval_cost(query.intervals[i],
                             Max(-4, Min(4, song.intervals[j - 1] + song.intervals[j]))))
         + MulF(wts.w_cont, _contour_cost(query.contour[i], song.contour[j]))
         + (6 * Scale) \div 10)

Applicable(i, j) ==
    {Substitution(i, j), Insertion(i, j), Deletion(i, j)}
        \cup (IF i >= 2 THEN {QueryMerge(i, j)} ELSE {})
        \cup (IF j >= 2 THEN {SongMerge(i, j)} ELSE {})

\* C11: for non-empty inputs D[0][j] = 0 for j in 0..n, D[i][0] is the sentinel for
\* i >= 1, and every cell with i, j >= 1 is the minimum over exactly the applicable
\* transitions (substitution, insertion, deletion, the query-side merge when
\* i >= 2, the song-side merge when j >= 2); for query intervals [2] against song
\* intervals [1, 1] cell (1, 2) is the lower of the substitution/indel paths and the
\* song-side merge.
C11_CellRecurrence ==
    Compared =>
        LET m == Len(query.intervals)
            n == Len(song.intervals)
        IN  /\ Len(table) = m + 1
            /\ \A i \in 0..m : Len(table[i + 1]) = n + 1
            /\ \A j \in 0..n : T(0, j) = 0
            /\ \A i \in 1..m : T(i, 0) = INF
            /\ \A i \in 1..m : \A j \in 1..n : T(i, j) = MinOfSet(Applicable(i, j))
            /\ (query.intervals = <<2>> /\ song.intervals = <<1, 1>>) =>
                  T(1, 2) = Min(Min(Substitution(1, 2),
                                    Min(Insertion(1, 2), Deletion(1, 2))),
                                SongMerge(1, 2))

C11_Witness ==
    /\ Compared
    /\ wts = DefaultWeights
    /\ query.intervals = <<2>>
    /\ song.intervals = <<1, 1>>
    /\ SongMerge(1, 2) = (6 * Scale) \div 10
    /\ Substitution(1, 2) = Scale \div 8
    /\ T(1, 2) = Scale \div 8

\* the query's intervals and contour are the song's from position off + 1 on
Occurs(off) ==
    /\ off \in 0..(Len(song.intervals) - Len(query.intervals))
    /\ \A k \in 1..Len(query.intervals) :
          /\ query.intervals[k] = song.intervals[off + k]
          /\ query.contour[k] = song.contour[off + k]

Offsets == {off \in 0..Len(song.intervals) : Occurs(off)}

\* w_time = 0 and the pitch tie-breaker contributes 0
UntimedUnpenalised ==
    /\ wts.w_time = 0
    /\ wts.w_abs = 0 \/ ~MeanPitchDiffers

\* C12: with w_time = 0 and a pitch tie-breaker of 0, when the query's interval and
\* contour sequences occur as a contiguous run of the song's at some offset, the
\* cost is 0 whatever the offset and whatever surrounds the run, and end_j is the
\* 0-based song index at which the earliest occurrence ends.
C12_FreeStartFreeEnd ==
    (Compared /\ UntimedUnpenalised /\ Offsets # {}) =>
        /\ res.cost = 0
        /\ \E off \in Offsets :
              /\ \A o \in Offsets : off <= o
              /\ res.end_j = off + Len(query.intervals) - 1

C12_Witness ==
    /\ Compared
    /\ UntimedUnpenalised
    /\ Len(song.intervals) = 3
    /\ Offsets = {1, 2}
    /\ res.cost = 0
    /\ res.end_j = 1

\* the query is the notes shifted by shift semitones, and has been aligned
TransposedRun ==
    /\ pc = "done"
    /\ Len(query.pitches) = Len(notes)
    /\ \A k \in 1..Len(notes) : query.pitches[k] = notes[k].pitch + shift

\* the least D[m][j] over j in 1..n of a table
DPMinimum(tb) ==
    MinOfSet({tb[Len(tb)][j + 1] : j \in 1..(Len(tb[1]) - 1)})

\* w_abs * |mean(q.pitches) - mean(song.pitches)| / 12 when both lists are non-empty
TieBreaker(q) ==
    IF q.pitches # <<>> /\ song.pitches # <<>>
    THEN CeilDiv(wts.w_abs * Abs(SumSeq(q.pitches) * Len(song.pitches)
                                 - SumSeq(song.pitches) * Len(q.pitches)),
                 12 * Len(q.pitches) * Len(song.pitches))
    ELSE 0

\* the result on the notes as written
Untransposed == dp_distance(rep, song, wts)

\* C13: shifting every note of the query by the same number of semitones leaves the
\* built intervals and contour, the DP minimum and end_j unchanged; the cost
\* differs only by the tie-breaker w_abs * |mean(query.pitches) -
\* mean(song.pitches)| / 12, added exactly when both pitch lists are non-empty, so
\* with w_abs = 0 the whole result is unchanged.
C13_Transposition ==
    TransposedRun =>
        /\ query.intervals = rep.intervals
        /\ query.contour = rep.contour
        /\ res.end_j = Untransposed.end_j
        /\ wts.w_abs = 0 => res = Untransposed
        /\ IF Len(query.intervals) = 0 \/ Len(song.intervals) = 0
           THEN res = Untransposed
           ELSE /\ table = DPTable(rep, song, wts)
                /\ res.cost = DPMinimum(table) + TieBreaker(query)
                /\ Untransposed.cost = DPMinimum(table) + TieBreaker(rep)

C13_Witness ==
    /\ TransposedRun
    /\ shift = 7
    /\ Len(query.intervals) = 2
    /\ Len(song.intervals) = 3
    /\ res.end_j = Untransposed.end_j
    /\ res.end_j >= 0
    /\ res.cost > Untransposed.cost

NonNegativeWeights ==
    /\ wts.w_int >= 0 /\ wts.w_cont >= 0 /\ wts.w_time >= 0 /\ wts.w_abs >= 0
    /\ wts.ins_cost >= 0 /\ wts.del_cost >= 0

\* j is the smallest index in 1..n that minimises D[m][j]
FirstMinimiser(j) ==
    LET m == Len(query.intervals)
        n == Len(song.intervals)
    IN  /\ j \in 1..n
        /\ \A k \in 1..n : T(m, j) <= T(m, k)
        /\ \A k \in 1..(j - 1) : T(m, k) > T(m, j)

\* the cost is finite, non-negative and at most m * ins_cost plus the tie-breaker
BoundedCost ==
    /\ res.cost >= 0
    /\ res.cost < INF
    /\ wts.ins_cost < INF =>
          res.cost <= Len(query.intervals) * wts.ins_cost + TieBreaker(query)

\* C14: for m >= 1, n >= 1 and non-negative weights dp_distance returns a finite
\* non-negative cost of at most m * ins_cost plus the pitch tie-breaker (never the
\* 1e18 sentinel) and an end_j in [0, n - 1] that is j - 1 for the smallest j
\* minimising D[m][j]; end_j = -1 is returned only for incomparable inputs.
C14_Original ==
    /\ (Compared /\ NonNegativeWeights) =>
          /\ BoundedCost
          /\ res.end_j \in 0..(Len(song.intervals) - 1)
          /\ FirstMinimiser(res.end_j + 1)
    /\ (pc = "done" /\ res.end_j = -1) =>
          (Len(query.intervals) = 0 \/ Len(song.intervals) = 0)

====
